---- MODULE Spec2Model ----
(***************************************************************************)
(* Model of crates/hello-triangle/src/graphics/vulkan_base.rs:             *)
(* VulkanBase::new (create_instance, pick_physical_device,                 *)
(* create_logical_device, get_device_queue) and Drop for VulkanBase.       *)
(*                                                                         *)
(* Option<T> is a sequence of length 0 (None) or 1 (Some).  Result<T, E>   *)
(* is a record [ok, value] or [ok, error].  A physical device handle is    *)
(* its index in the enumeration, counted from 0 as in the code; the        *)
(* driver's answer for a device is its list of queue-family flag sets.     *)
(***************************************************************************)
EXTENDS Integers, Sequences, FiniteSets

VARIABLES
    pc,                   \* position in VulkanBase::new / Drop::drop
    create_info,          \* Option: the vk::InstanceCreateInfo built at 67-69
    entry,                \* the Vulkan loader (ash::Entry): "none" | "loaded" | "dropped"
    instance,             \* the native VkInstance: "none" | "created" | "destroyed"
    device,               \* the native VkDevice: "none" | "created" | "destroyed"
    physical_devices,     \* what enumerate_physical_devices answered (queue families per device)
    physical_device,      \* Option: the handle pick_physical_device returned
    queue_family_indices, \* the QueueFamilyIndices value held by new / find_queue_families
    device_create_info,   \* Option: the vk::DeviceCreateInfo handed to create_device
    graphics_queue,       \* Option: the (family, index) get_device_queue was asked for
    result,               \* "none" | "Ok" | "Err" | "panic": how new ended
    error,                \* the error value carried by Err
    failure,              \* the native call that failed, "none" if none did
    calls,                \* the native calls made so far, in order
    drop_pos              \* how many statements of Drop::drop's body have run

vars == <<pc, create_info, entry, instance, device, physical_devices, physical_device,
          queue_family_indices, device_create_info, graphics_queue, result, error,
          failure, calls, drop_pos>>

----------------------------------------------------------------------------
(* Bounds of the model *)

MaxDevices == 3
MaxFamilies == 2
MaxFindFamilies == 3

----------------------------------------------------------------------------
(* Option and Result *)

None == << >>
Some(v) == <<v>>
is_some(o) == Len(o) = 1
unwrap(o) == o[1]

Ok(v) == [ok |-> TRUE, value |-> v]
Err(e) == [ok |-> FALSE, error |-> e]

Range(s) == {s[i] : i \in 1..Len(s)}

SeqsUpTo(S, n) == UNION {[1..k -> S] : k \in 0..n}

----------------------------------------------------------------------------
(* vk::QueueFlags *)

QueueFlagBits == {"GRAPHICS", "COMPUTE", "TRANSFER"}

\* a family that only moves and computes, and a family that does everything
FlowQueueFlags == {{"COMPUTE", "TRANSFER"}, {"GRAPHICS", "COMPUTE", "TRANSFER"}}

contains_eq(flags, other) == flags = other

contains(flags, other) == other \subseteq flags

GRAPHICS == {"GRAPHICS"}

----------------------------------------------------------------------------
(* QueueFamilyIndices *)

QueueFamilyIndices(idx) == [graphics_family_index |-> idx]

is_complete(self) == is_some(self.graphics_family_index)

RECURSIVE FindLoop(_, _)
FindLoop(queue_families, i) ==
    IF i > Len(queue_families) THEN QueueFamilyIndices(None)
    ELSE IF contains(queue_families[i], GRAPHICS) THEN QueueFamilyIndices(Some(i - 1))
    ELSE FindLoop(queue_families, i + 1)

RECURSIVE FindLastLoop(_, _)
FindLastLoop(queue_families, i) ==
    IF i < 1 THEN QueueFamilyIndices(None)
    ELSE IF contains(queue_families[i], GRAPHICS) THEN QueueFamilyIndices(Some(i - 1))
    ELSE FindLastLoop(queue_families, i - 1)

find_queue_families_last(queue_families) == FindLastLoop(queue_families, Len(queue_families))

find_queue_families(queue_families) == FindLoop(queue_families, 1)

is_device_suitable_always(queue_families) == Some(find_queue_families(queue_families))

is_device_suitable(queue_families) ==
    LET indices == find_queue_families(queue_families)
    IN  IF is_complete(indices) THEN Some(indices) ELSE None

----------------------------------------------------------------------------
(* pick_physical_device *)

Picked(d, indices) == [physical_device |-> d, queue_family_indices |-> indices]

RECURSIVE PickLoop(_, _)
PickLoop(devices, i) ==
    IF i > Len(devices) THEN Err("NoValidGPU")
    ELSE LET value == is_device_suitable(devices[i])
         IN  IF is_some(value) THEN Ok(Picked(i - 1, unwrap(value)))
             ELSE PickLoop(devices, i + 1)

RECURSIVE PickLastLoop(_, _)
PickLastLoop(devices, i) ==
    IF i < 1 THEN Err("NoValidGPU")
    ELSE LET value == is_device_suitable(devices[i])
         IN  IF is_some(value) THEN Ok(Picked(i - 1, unwrap(value)))
             ELSE PickLastLoop(devices, i - 1)

pick_physical_device_last(enumerated) ==
    IF ~enumerated.ok THEN enumerated
    ELSE PickLastLoop(enumerated.value, Len(enumerated.value))

pick_physical_device(enumerated) ==
    IF ~enumerated.ok THEN enumerated
    ELSE PickLoop(enumerated.value, 1)

----------------------------------------------------------------------------
(* create_instance: the request it builds *)

\* what ash_window::enumerate_required_extensions can answer for a window
RequiredExtensions ==
    { Ok(<<"VK_KHR_surface", "VK_KHR_xcb_surface">>),
      Ok(<<"VK_KHR_surface", "VK_KHR_win32_surface">>),
      Err("ERROR_EXTENSION_NOT_PRESENT") }

InstanceCreateInfo(surface_extensions) ==
    [application_name        |-> "Hello Triangle",
     engine_name             |-> "Hello Triangle Engine",
     enabled_extension_names |-> surface_extensions]

----------------------------------------------------------------------------
(* create_logical_device: the request it builds *)

queue_priorities == <<1>>      \* [1.0], in units of 1.0

DeviceQueueCreateInfoZero(indices) ==
    [queue_family_index |-> 0, queue_priorities |-> queue_priorities]

DeviceQueueCreateInfo(indices) ==
    [queue_family_index |-> unwrap(indices.graphics_family_index),
     queue_priorities   |-> queue_priorities]

DeviceCreateInfo(indices) ==
    [queue_create_infos      |-> <<DeviceQueueCreateInfo(indices)>>,
     enabled_extension_names |-> << >>,
     enabled_features        |-> None]

----------------------------------------------------------------------------
(* Release of the native resources *)

\* the body of Drop::drop, statement by statement
DropBodySwapped == <<"destroy_instance", "destroy_device">>

DropBody == <<"destroy_device", "destroy_instance">>

\* what dropping a value of each field's type does natively: ash::Entry owns
\* the loaded library, ash::Instance and ash::Device are plain handle wrappers
EntryDropGlue == <<"drop_entry">>

InstanceDropGlueDestroys == <<"destroy_instance">>

InstanceDropGlue == << >>

DeviceDropGlue == << >>

\* the locals of new that are live when `?` returns early or a panic unwinds:
\* (_entry, instance), dropped in reverse order of declaration
NewLocalsDropGlue == InstanceDropGlue \o EntryDropGlue

\* the fields of VulkanBase, dropped in order of declaration after Drop::drop
FieldsDropGlue == EntryDropGlue \o InstanceDropGlue \o DeviceDropGlue

\* the native calls cs are made: they are logged and the handles follow
Released(cs) ==
    /\ calls' = calls \o cs
    /\ entry' = IF "drop_entry" \in Range(cs) THEN "dropped" ELSE entry
    /\ instance' = IF "destroy_instance" \in Range(cs) THEN "destroyed" ELSE instance
    /\ device' = IF "destroy_device" \in Range(cs) THEN "destroyed" ELSE device

\* step `step` failed with e after the native call `call`, and `?` (or the Err
\* of line 87) hands e to the caller of new; glue is the drop glue of the
\* locals live at that point
ReturnErr(call, step, e, glue) ==
    /\ pc' = "failed"
    /\ result' = "Err"
    /\ error' = e
    /\ failure' = step
    /\ Released(<<call>> \o glue)

\* an unwrap() of a failed value panics; the unwinding runs the drop glue
Panic(site, cs, glue) ==
    /\ pc' = "panicked"
    /\ result' = "panic"
    /\ failure' = site
    /\ Released(cs \o glue)
    /\ UNCHANGED error

----------------------------------------------------------------------------
(* VulkanBase::new *)

Init ==
    /\ pc = "create_instance"
    /\ create_info = None
    /\ entry = "none"
    /\ instance = "none"
    /\ device = "none"
    /\ physical_devices = << >>
    /\ physical_device = None
    /\ queue_family_indices = QueueFamilyIndices(None)
    /\ device_create_info = None
    /\ graphics_queue = None
    /\ result = "none"
    /\ error = "none"
    /\ failure = "none"
    /\ calls = << >>
    /\ drop_pos = 0

\* create_instance, lines 48-69
EnumerateRequiredExtensions ==
    /\ pc = "create_instance"
    /\ \E r \in RequiredExtensions :
          IF r.ok
          THEN /\ create_info' = Some(InstanceCreateInfo(r.value))
               /\ pc' = "Entry::new"
               /\ calls' = Append(calls, "enumerate_required_extensions")
               /\ UNCHANGED <<entry, instance, device, result, error, failure>>
          ELSE /\ Panic("enumerate_required_extensions",
                        <<"enumerate_required_extensions">>, << >>)
               /\ UNCHANGED create_info
    /\ UNCHANGED <<physical_devices, physical_device, queue_family_indices,
                   device_create_info, graphics_queue, drop_pos>>

\* create_instance, line 72
EntryNew ==
    /\ pc = "Entry::new"
    /\ \E ok \in BOOLEAN :
          IF ok
          THEN /\ entry' = "loaded"
               /\ pc' = "create_instance call"
               /\ calls' = Append(calls, "Entry::new")
               /\ UNCHANGED <<instance, device, result, error, failure>>
          ELSE ReturnErr("Entry::new", "Entry::new", "LoadingError", << >>)
    /\ UNCHANGED <<create_info, physical_devices, physical_device, queue_family_indices,
                   device_create_info, graphics_queue, drop_pos>>

\* create_instance, lines 73-74
EntryCreateInstance ==
    /\ pc = "create_instance call"
    /\ \E ok \in BOOLEAN :
          IF ok
          THEN /\ instance' = "created"
               /\ pc' = "pick_physical_device"
               /\ calls' = Append(calls, "create_instance")
               /\ UNCHANGED <<entry, device, result, error, failure>>
          ELSE ReturnErr("create_instance", "create_instance", "InstanceError", EntryDropGlue)
    /\ UNCHANGED <<create_info, physical_devices, physical_device, queue_family_indices,
                   device_create_info, graphics_queue, drop_pos>>

DeviceLists == SeqsUpTo(SeqsUpTo(FlowQueueFlags, MaxFamilies), MaxDevices)

\* what instance.enumerate_physical_devices can answer
EnumeratedPhysicalDevices ==
    {Ok(devices) : devices \in DeviceLists} \cup {Err("ERROR_INITIALIZATION_FAILED")}

\* new, line 29, with pick_physical_device
PickPhysicalDevice ==
    /\ pc = "pick_physical_device"
    /\ \E enumerated \in EnumeratedPhysicalDevices :
          LET picked == pick_physical_device(enumerated)
          IN  /\ physical_devices' = IF enumerated.ok THEN enumerated.value ELSE << >>
              /\ IF picked.ok
                 THEN /\ physical_device' = Some(picked.value.physical_device)
                      /\ queue_family_indices' = picked.value.queue_family_indices
                      /\ pc' = "create_logical_device"
                      /\ calls' = Append(calls, "enumerate_physical_devices")
                      /\ UNCHANGED <<entry, instance, device, result, error, failure>>
                 ELSE /\ ReturnErr("enumerate_physical_devices",
                                   IF enumerated.ok THEN "pick_physical_device"
                                   ELSE "enumerate_physical_devices",
                                   picked.error, NewLocalsDropGlue)
                      /\ UNCHANGED <<physical_device, queue_family_indices>>
    /\ UNCHANGED <<create_info, device_create_info, graphics_queue, drop_pos>>

\* new, lines 31-32, with create_logical_device
CreateLogicalDevice ==
    /\ pc = "create_logical_device"
    /\ IF is_some(queue_family_indices.graphics_family_index)
       THEN /\ device_create_info' = Some(DeviceCreateInfo(queue_family_indices))
            /\ \E ok \in BOOLEAN :
                  IF ok
                  THEN /\ device' = "created"
                       /\ pc' = "get_device_queue"
                       /\ calls' = Append(calls, "create_device")
                       /\ UNCHANGED <<entry, instance, result, error, failure>>
                  ELSE ReturnErr("create_device", "create_device",
                                 "ERROR_INITIALIZATION_FAILED", NewLocalsDropGlue)
       ELSE /\ Panic("unwrap graphics_family_index", << >>, NewLocalsDropGlue)
            /\ UNCHANGED device_create_info
    /\ UNCHANGED <<create_info, physical_devices, physical_device, queue_family_indices,
                   graphics_queue, drop_pos>>

\* new, lines 34-42
GetDeviceQueue ==
    /\ pc = "get_device_queue"
    /\ IF is_some(queue_family_indices.graphics_family_index)
       THEN /\ graphics_queue' =
                  Some([queue_family_index |-> unwrap(queue_family_indices.graphics_family_index),
                        queue_index        |-> 0])
            /\ pc' = "constructed"
            /\ result' = "Ok"
            /\ calls' = Append(calls, "get_device_queue")
            /\ UNCHANGED <<entry, instance, device, error, failure>>
       ELSE /\ Panic("unwrap graphics_family_index", << >>,
                     DeviceDropGlue \o NewLocalsDropGlue)
            /\ UNCHANGED graphics_queue
    /\ UNCHANGED <<create_info, physical_devices, physical_device, queue_family_indices,
                   device_create_info, drop_pos>>

----------------------------------------------------------------------------
(* Drop for VulkanBase *)

\* one statement of the body of drop, lines 146-149
DropStatement ==
    /\ pc \in {"constructed", "drop"}
    /\ drop_pos < Len(DropBody)
    /\ Released(<<DropBody[drop_pos + 1]>>)
    /\ drop_pos' = drop_pos + 1
    /\ pc' = "drop"
    /\ UNCHANGED <<create_info, physical_devices, physical_device, queue_family_indices,
                   device_create_info, graphics_queue, result, error, failure>>

\* after the body, the fields are dropped
DropFields ==
    /\ pc = "drop"
    /\ drop_pos = Len(DropBody)
    /\ Released(FieldsDropGlue)
    /\ pc' = "dropped"
    /\ UNCHANGED <<create_info, physical_devices, physical_device, queue_family_indices,
                   device_create_info, graphics_queue, result, error, failure, drop_pos>>

Next ==
    \/ EnumerateRequiredExtensions
    \/ EntryNew
    \/ EntryCreateInstance
    \/ PickPhysicalDevice
    \/ CreateLogicalDevice
    \/ GetDeviceQueue
    \/ DropStatement
    \/ DropFields

Spec == Init /\ [][Next]_vars

----------------------------------------------------------------------------
(* find_queue_families on its own: one device, any list of flag sets *)

FindFamilyLists == SeqsUpTo(SUBSET QueueFlagBits, MaxFindFamilies)

InitFind ==
    /\ pc = "find_queue_families"
    /\ physical_devices \in {<<families>> : families \in FindFamilyLists}
    /\ create_info = None
    /\ entry = "loaded"
    /\ instance = "created"
    /\ device = "none"
    /\ physical_device = None
    /\ queue_family_indices = QueueFamilyIndices(None)
    /\ device_create_info = None
    /\ graphics_queue = None
    /\ result = "none"
    /\ error = "none"
    /\ failure = "none"
    /\ calls = << >>
    /\ drop_pos = 0

FindQueueFamilies ==
    /\ pc = "find_queue_families"
    /\ queue_family_indices' = find_queue_families(physical_devices[1])
    /\ pc' = "found"
    /\ UNCHANGED <<create_info, entry, instance, device, physical_devices, physical_device,
                   device_create_info, graphics_queue, result, error, failure, calls,
                   drop_pos>>

NextFind == FindQueueFamilies

SpecFind == InitFind /\ [][NextFind]_vars

----------------------------------------------------------------------------
(* What the properties speak of *)

Min(S) == CHOOSE x \in S : \A y \in S : x <= y

\* the indices (from 0) of the families of a list that advertise GRAPHICS
GraphicsFamilies(families) ==
    {j \in 0..(Len(families) - 1) : "GRAPHICS" \in families[j + 1]}

\* the indices (from 0) of the enumerated devices with a GRAPHICS family
GraphicsDevices ==
    {d \in 0..(Len(physical_devices) - 1) : GraphicsFamilies(physical_devices[d + 1]) # {}}

\* the positions of a native call in the log
Pos(call) == {i \in 1..Len(calls) : calls[i] = call}

Before(a, b) == \A j \in Pos(b) : \E i \in Pos(a) : i < j

\* enumerate_physical_devices answered with a list
EnumerationSucceeded ==
    /\ Pos("enumerate_physical_devices") # {}
    /\ failure # "enumerate_physical_devices"

----------------------------------------------------------------------------
(* Properties of device and queue-family selection *)

\* C1: whenever the enumerated list has a device with a GRAPHICS family,
\* pick_physical_device returns the qualifying device of lowest enumeration
\* index, paired with the lowest GRAPHICS family index of that device.
C1_FirstSuitableDevice ==
    (EnumerationSucceeded /\ GraphicsDevices # {}) =>
        /\ physical_device = Some(Min(GraphicsDevices))
        /\ queue_family_indices.graphics_family_index =
               Some(Min(GraphicsFamilies(physical_devices[Min(GraphicsDevices) + 1])))
        /\ error # "NoValidGPU"

\* device 1 is the first to qualify, at family 1, and device 2 qualifies too
C1_Witness ==
    /\ EnumerationSucceeded
    /\ GraphicsDevices = {1, 2}
    /\ GraphicsFamilies(physical_devices[2]) = {1}
    /\ physical_device = Some(1)
    /\ queue_family_indices.graphics_family_index = Some(1)

\* C2: when enumeration succeeds, pick_physical_device fails with NoValidGPU
\* exactly when no enumerated device has a GRAPHICS family (the empty list
\* included); NoValidGPU is reported in no other situation.
C2_NoValidGPUIffNoneQualifies ==
    /\ EnumerationSucceeded =>
           ((result = "Err" /\ error = "NoValidGPU") <=> GraphicsDevices = {})
    /\ error = "NoValidGPU" =>
           (EnumerationSucceeded /\ result = "Err" /\ failure = "pick_physical_device")

\* two devices, both with families, none with GRAPHICS
C2_Witness ==
    /\ error = "NoValidGPU"
    /\ Len(physical_devices) = 2
    /\ \A d \in 1..2 : Len(physical_devices[d]) >= 1

\* C3: find_queue_families returns the smallest index whose flags contain
\* GRAPHICS, returns no index exactly when no family contains GRAPHICS, and
\* is_complete holds exactly when the index is present.
C3_LowestGraphicsFamily ==
    pc = "found" =>
        LET G == GraphicsFamilies(physical_devices[1])
            idx == queue_family_indices.graphics_family_index
        IN  /\ G # {} => idx = Some(Min(G))
            /\ G = {} <=> idx = None
            /\ is_complete(queue_family_indices) <=> idx # None

\* [COMPUTE, GRAPHICS, TRANSFER] gives family 1
C3_Witness ==
    /\ pc = "found"
    /\ physical_devices[1] = <<{"COMPUTE"}, {"GRAPHICS"}, {"TRANSFER"}>>
    /\ queue_family_indices.graphics_family_index = Some(1)

----------------------------------------------------------------------------
(* Properties of logical-device creation *)

\* C4: every request for a logical device has exactly one queue-create entry,
\* for the family index device selection returned, with exactly one queue at
\* priority 1.0, and asks for no device extensions and no features; the queue
\* fetched afterwards is queue 0 of that same family.
C4_OneQueueOfSelectedFamily ==
    /\ is_some(device_create_info) =>
           LET info == unwrap(device_create_info)
           IN  /\ Len(info.queue_create_infos) = 1
               /\ Some(info.queue_create_infos[1].queue_family_index) =
                      queue_family_indices.graphics_family_index
               /\ info.queue_create_infos[1].queue_family_index \in
                      GraphicsFamilies(physical_devices[unwrap(physical_device) + 1])
               /\ info.queue_create_infos[1].queue_priorities = <<1>>
               /\ info.enabled_extension_names = << >>
               /\ info.enabled_features = None
    /\ is_some(graphics_queue) =>
           /\ is_some(device_create_info)
           /\ unwrap(graphics_queue).queue_index = 0
           /\ unwrap(graphics_queue).queue_family_index =
                  unwrap(device_create_info).queue_create_infos[1].queue_family_index
    /\ Pos("create_device") # {} => is_some(device_create_info)

\* a device was created on family 1 and its queue 0 fetched
C4_Witness ==
    /\ pc = "constructed"
    /\ graphics_queue = Some([queue_family_index |-> 1, queue_index |-> 0])
    /\ unwrap(device_create_info).queue_create_infos[1].queue_family_index = 1

\* C10: create_logical_device and get_device_queue are reached only with a
\* complete selection returned by pick_physical_device, so neither unwrap of
\* graphics_family_index meets an absent index.
C10_UnwrapsMeetPresentIndex ==
    /\ pc \in {"create_logical_device", "get_device_queue"} =>
           /\ EnumerationSucceeded
           /\ is_some(physical_device)
           /\ is_complete(queue_family_indices)
    /\ failure # "unwrap graphics_family_index"

\* the first unwrap has run and the second is about to
C10_Witness ==
    /\ pc = "get_device_queue"
    /\ is_some(device_create_info)
    /\ device = "created"
    /\ queue_family_indices.graphics_family_index = Some(0)

----------------------------------------------------------------------------
(* Properties of construction failures and of teardown *)

\* C5: teardown of a constructed context destroys the logical device strictly
\* before the instance, each exactly once, and releases the loader only after
\* both destroy calls.
C5_DeviceThenInstanceThenLoader ==
    result = "Ok" =>
        /\ Cardinality(Pos("destroy_device")) <= 1
        /\ Cardinality(Pos("destroy_instance")) <= 1
        /\ Cardinality(Pos("drop_entry")) <= 1
        /\ Before("destroy_device", "destroy_instance")
        /\ Before("destroy_device", "drop_entry")
        /\ Before("destroy_instance", "drop_entry")
        /\ pc = "dropped" =>
               /\ Cardinality(Pos("destroy_device")) = 1
               /\ Cardinality(Pos("destroy_instance")) = 1
               /\ Cardinality(Pos("drop_entry")) = 1
               /\ device = "destroyed" /\ instance = "destroyed" /\ entry = "dropped"

\* teardown has run to its end
C5_Witness ==
    /\ pc = "dropped"
    /\ Pos("destroy_device") # {}
    /\ Pos("destroy_instance") # {}

\* C6: whichever step of new fails, new returns that error to its caller, no
\* later step runs and no context value is produced.
C6_FailureIsReturned ==
    failure # "none" =>
        /\ result = "Err"
        /\ pc = "failed"
        /\ error # "none"
        /\ drop_pos = 0
        /\ \A i \in 1..Len(calls) :
               calls[i] \in {"create_device", "get_device_queue"} =>
                   failure = "create_device" /\ calls[i] = "create_device"

\* C7: every failure of the instance-creation step, the query for the
\* required surface extensions included, reaches the caller of new as an
\* error value and does not end the program abnormally.
C7_InstanceCreationFailureIsError ==
    failure \in {"enumerate_required_extensions", "Entry::new", "create_instance"} =>
        result = "Err" /\ pc # "panicked"

\* C8: the logical device exists only while the instance exists, the instance
\* only while the loader exists; acquisition is in the order loader, instance,
\* physical device, logical device, queue; the instance is never destroyed
\* while the device is alive.
C8_OwnershipChain ==
    /\ device = "created" => instance = "created"
    /\ instance = "created" => entry = "loaded"
    /\ instance = "destroyed" => device # "created"
    /\ Before("Entry::new", "create_instance")
    /\ Before("create_instance", "enumerate_physical_devices")
    /\ Before("enumerate_physical_devices", "create_device")
    /\ Before("create_device", "get_device_queue")

\* C9: destroy calls are made only for a context whose construction succeeded;
\* when construction fails after the instance was created, nothing is
\* destroyed and the instance is left undestroyed.
C9_NoTeardownAfterFailure ==
    /\ (Pos("destroy_device") # {} \/ Pos("destroy_instance") # {}) => result = "Ok"
    /\ (result = "Err" /\ Pos("create_instance") # {} /\ failure # "create_instance") =>
           /\ pc = "failed"
           /\ instance = "created"
           /\ device \in {"none"}
           /\ Pos("destroy_device") = {} /\ Pos("destroy_instance") = {}

\* logical-device creation failed after the instance was created
C9_Witness ==
    /\ pc = "failed"
    /\ failure = "create_device"
    /\ instance = "created"
    /\ Pos("create_instance") # {}

====
